---------------------------- MODULE Spec2Model ----------------------------
(***************************************************************************)
(* The narration-synchronised assembly pipeline of the repository, as a    *)
(* state machine.  Two scripts implement it:                               *)
(*                                                                         *)
(*   "sync"    src/build_video_with_audio/assemble_video.py                *)
(*   "offline" src/CentenaryVideo/scripts/assemble_video.py                *)
(*                                                                         *)
(* One behaviour of the model is one run of one of the two scripts.  The   *)
(* file system and the external tools (ffmpeg, ffprobe, pyttsx3) are the   *)
(* environment: what a step finds on disk, and whether a tool succeeds, is *)
(* chosen when the step looks.                                             *)
(*                                                                         *)
(* Time.  The scripts hold times as float seconds.  The model holds them   *)
(* as whole ticks, twelve to the millisecond, so that the mean of up to    *)
(* four durations given in milliseconds is exact.                          *)
(***************************************************************************)
EXTENDS Integers, Sequences, FiniteSets, TLC

\* ------------------------------------------------------------------ bounds

\* At most this many records in narration.json.
MaxItems == 3

\* At most this many image files in assets/.
MaxImages == 2

\* ------------------------------------------------------------ time values

\* n milliseconds, in ticks.
Ms(n) == n * 12

\* One second, in ticks.
TicksPerSec == Ms(1000)

\* The durations an audio file of the environment may have: shorter than
\* either subtitle gap and off the frame grid (30 ms), and three values on
\* the frame grid (1 s, 2 s, 3.5 s).
DurChoices == {Ms(30), Ms(1000), Ms(2000), Ms(3500)}

\* --------------------------------------------------- program constants

FPS == 30

SEGMENT_PADDING == 0

FALLBACK_SILENCE == Ms(600)

\* The value avg takes when no present file could be probed (line 122).
DEFAULT_AVG == Ms(2000)

\* build_srt's gap = 0.04
gap == Ms(40)

\* create_srt_file's literal 0.1
OFFLINE_GAP == Ms(100)

\* create_video_segment passes no -r: ffmpeg renders a looped still at its
\* default rate of 25 frames per second.
OFFLINE_RATE == 25

\* ----------------------------------------------------------------- helpers

None == -1

RECURSIVE Sum(_)
Sum(s) == IF s = <<>> THEN 0 ELSE Head(s) + Sum(Tail(s))

\* ceil(a / b) for a >= 0, b > 0
CeilDiv(a, b) == (a + b - 1) \div b

\* Python's int(x) on a float given as n/d: truncation towards zero.
Trunc(n, d) == IF n >= 0 THEN n \div d ELSE -((-n) \div d)

\* fmt / fmt_time: the four fields written for a time t (in ticks).
\* h = int(t // 3600), m = int((t % 3600) // 60), s = int(t % 60),
\* ms = int((t - int(t)) * 1000); // and % are Python's floor operators.
fmt(t) ==
    LET h  == t \div (3600 * TicksPerSec)
        m  == (t % (3600 * TicksPerSec)) \div (60 * TicksPerSec)
        s  == (t % (60 * TicksPerSec)) \div TicksPerSec
        it == Trunc(t, TicksPerSec)
        ms == Trunc((t - it * TicksPerSec) * 1000, TicksPerSec)
    IN  <<h, m, s, ms>>

\* The number of frames ffmpeg writes for "-t dur" at the given rate: it
\* emits frames while their timestamp is below dur.
Frames(dur, rate) == CeilDiv(dur * rate, TicksPerSec)

\* The length in ticks of a video of n frames at the given rate.
FramesToTicks(n, rate) == (n * TicksPerSec) \div rate

\* --------------------------------------------------------------- variables

VARIABLES
    script,         \* "sync" or "offline": the script this run executes
    pc,             \* the position of the run in main()
    exit_status,    \* None while running, 0 on success, 1 on a fatal end
    fatal,          \* what ended the run: "none" or the diagnostic
    attempts,       \* how often the command that ended the run was run
    queued,         \* the files the speech engine has been asked to write
    items,          \* items / narration: the loaded list
    wav,            \* the audio directory: id -> [kind, dur]
    aligned_files,  \* find_narration_files' list: an id, or None
    existing_durs,  \* first pass: the probed durations
    avg,            \* first pass: their mean
    tmp_files,      \* the chunks: [path, dur, probe, placeholder, format]
    durations,      \* the per-item durations
    idx,            \* the loop index of the per-item loops (0-based)
    images,         \* the number of images found, None before the listing
    mapped,         \* item position -> image index
    segments,       \* the rendered segments: [path, dur, frames, image,
                    \* fade, fade_out_st]
    cues,           \* the cues written to the SRT file
    merged_dur,     \* duration of the merged audio track, None if unwritten
    video_frames,   \* frames of the concatenated video, None if unwritten
    final_dur,      \* duration of the final deliverable, None if unwritten
    audio_dir,      \* whether the audio directory exists
    disk,           \* the files this run has written and not removed
    ran,            \* the processing steps this run has started
    probe_tool,     \* what the run has found out about ffprobe
    fsops,          \* the directory and file operations done so far
    narration_json, \* narration.json as json.load returned it
    prev            \* what an earlier run on the same inputs saw and made

vars == <<script, pc, exit_status, fatal, attempts, queued, items,
          wav, aligned_files,
          existing_durs, avg, tmp_files, durations, idx, images, mapped,
          segments, cues, merged_dur, video_frames, final_dur, audio_dir,
          disk, ran, probe_tool, fsops, narration_json, prev>>


\* ------------------------------------------------------------- environment

\* narration.json as the pipeline is given it: n records with the ids 1..n
\* in order, each with a text.
NarrationInputs ==
    {[k \in 1..n |-> [id |-> k, text |-> "t"]] : n \in 0..MaxItems}

\* What the audio directory may hold for one id:
\*   missing  no narration_NN.wav
\*   ok       a decodable file; ffprobe prints its duration
\*   srcna    a decodable file for which ffprobe prints no number; the
\*            normalised copy probes
\*   tmpna    a decodable file whose normalised copy ffprobe prints no
\*            number for
\*   corrupt  a file no tool can read: ffprobe and ffmpeg exit non-zero
AudioWorld ==
    {[kind |-> "missing", dur |-> 0], [kind |-> "corrupt", dur |-> 0]}
        \cup [kind : {"ok", "srcna", "tmpna"}, dur : DurChoices]

\* What the offline script tells apart: it reads the file itself.
\*   ok       a PCM WAV file the wave module opens
\*   alt      an audio file the wave module refuses (another container or
\*            codec under the same name) and ffprobe reads
\*   corrupt  a file neither reads
OfflineAudioWorld ==
    {[kind |-> "missing", dur |-> 0], [kind |-> "corrupt", dur |-> 0]}
        \cup [kind : {"ok", "alt"}, dur : DurChoices]

Ids(its) == {its[k].id : k \in 1..Len(its)}

\* The four properties of an audio file that inspect_wav reads and the
\* merger compares.
WavFormat(ch, width, rate, comp) ==
    [nchannels |-> ch, sampwidth |-> width, framerate |-> rate,
     comptype |-> comp]

\* -ar 44100 -ac 2 -c:a pcm_s16le: what the sync script makes of every chunk.
NormalizedFormat == WavFormat(2, 2, 44100, "NONE")

\* The PCM WAV files the audio directory may hold: one base format and
\* three that differ from it in one property each.  The wave module reads
\* uncompressed files only, so their comptype is always NONE.
Formats ==
    {WavFormat(1, 2, 22050, "NONE"), WavFormat(2, 2, 22050, "NONE"),
     WavFormat(1, 1, 22050, "NONE"), WavFormat(1, 2, 44100, "NONE")}

\* The format of a file of the offline script's audio directory: a PCM WAV
\* file, or what the wave module refuses.
AudioFormat(f) ==
    IF f.kind = "alt" THEN WavFormat(1, 2, 22050, "other")
    ELSE WavFormat(1, 2, 22050, "NONE")

\* ------------------------------------------------------------------ loader

\* An id that int() does not take, such as "one".
BadId == -2

\* Some record's id makes int() raise.
HasBadId(d) == \E k \in 1..Len(d) : d[k].id = BadId

\* key=lambda x: int(x.get("id", 0))
SortKey(r) == IF r.id = None THEN 0 ELSE r.id

\* sorted(): stable, ascending by key
RECURSIVE InsertSorted(_, _)
InsertSorted(s, r) ==
    IF s = <<>> THEN <<r>>
    ELSE IF SortKey(s[Len(s)]) <= SortKey(r) THEN Append(s, r)
    ELSE Append(InsertSorted(SubSeq(s, 1, Len(s) - 1), r), s[Len(s)])

RECURSIVE SortedById(_)
SortedById(data) ==
    IF data = <<>> THEN <<>>
    ELSE InsertSorted(SortedById(SubSeq(data, 1, Len(data) - 1)),
                      data[Len(data)])

\* load_narration_items: sort, then one item per record, its id the
\* record's id or, without one, its 1-based position in the sorted list.
load_narration_items(data) ==
    LET sorted == SortedById(data)
    IN  [i \in 1..Len(sorted) |->
            [id   |-> IF sorted[i].id = None THEN i ELSE sorted[i].id,
             text |-> sorted[i].text]]

\* load_narration: the sorted records themselves.
load_narration(data) == SortedById(data)

\* --------------------------------------------------------------- the run

\* prev in a run that follows no other.
FirstRun ==
    [rerun |-> FALSE, ended |-> FALSE, fsops |-> {},
     narration_json |-> <<>>, wav |-> <<>>, audio_dir |-> FALSE,
     images |-> None, mapped |-> <<>>, durations |-> <<>>,
     segments |-> <<>>, cues |-> <<>>, cut_id |-> None, cut_full |-> None]

\* What a step may find when it looks at the inputs: anything, unless an
\* earlier run on the same inputs has looked already; then the same.
Given(known, same, fresh) == IF prev.rerun /\ known THEN same ELSE fresh

Init ==
    /\ script \in {"sync", "offline"}
    /\ pc = "check_tools"
    /\ exit_status = None
    /\ fatal = "none"
    /\ attempts = 0
    /\ queued = <<>>
    /\ items = <<>>
    /\ wav = <<>>
    /\ aligned_files = <<>>
    /\ existing_durs = <<>>
    /\ avg = None
    /\ tmp_files = <<>>
    /\ durations = <<>>
    /\ idx = 0
    /\ images = None
    /\ mapped = <<>>
    /\ segments = <<>>
    /\ cues = <<>>
    /\ merged_dur = None
    /\ video_frames = None
    /\ final_dur = None
    /\ audio_dir = FALSE
    /\ disk = {}
    /\ ran = {}
    /\ probe_tool = "unknown"
    /\ fsops = {}
    /\ narration_json = <<>>
    /\ prev = FirstRun

\* run(cmd): subprocess.run(cmd, check=True) is called once; a command that
\* fails raises (or exits) out of that one call.
RunOnce == 1

\* sys.exit(1), or an exception no one catches: the run ends with status 1.
Abort(reason) ==
    /\ pc' = "exit"
    /\ exit_status' = 1
    /\ fatal' = reason
    /\ attempts' = IF reason = "media_op_failed" THEN RunOnce ELSE attempts

Continue(next) ==
    /\ pc' = next
    /\ UNCHANGED <<exit_status, fatal, attempts>>

\* The paths of the chunks in tmp_files.
TmpPaths(tmps) == {tmps[k].path : k \in 1..Len(tmps)}

\* ------------------------------------------------ sync: check_tools, load

\* check_tools(), then TMP.mkdir.
SyncCheckTools ==
    /\ script = "sync" /\ pc = "check_tools"
    /\ \E ok \in BOOLEAN :
         IF ok
         THEN /\ Continue("load")
              /\ probe_tool' = "installed"
              /\ fsops' = fsops \cup {"tmp"}
         ELSE /\ Abort("tool_unavailable")
              /\ UNCHANGED <<probe_tool, fsops>>
    /\ UNCHANGED <<script, queued,
                   prev, narration_json, items, wav, aligned_files,
                   existing_durs, avg,
                   tmp_files, durations, idx, images, mapped, segments, cues,
                   merged_dur, video_frames, final_dur, audio_dir, disk, ran>>

\* load_narration_items() on a file that is one of inputs, or is not
\* there.  int() of an id that is no number raises: inside sorted() that
\* is swallowed (lines 67-70), in the loop (line 74) it ends the run.
SyncLoadFrom(inputs) ==
    /\ script = "sync" /\ pc = "load"
    /\ \E exists \in Given("narration.json" \in prev.fsops, {TRUE}, BOOLEAN) :
         IF exists
         THEN \E d \in Given("narration.json" \in prev.fsops,
                            {prev.narration_json}, inputs) :
                 /\ narration_json' = d
                 /\ IF HasBadId(d)
                    THEN /\ Abort("invalid_record")
                         /\ UNCHANGED items
                    ELSE /\ items' = load_narration_items(d)
                         /\ Continue("find")
         ELSE /\ Abort("no_narration")
              /\ UNCHANGED <<items, narration_json>>
    /\ fsops' = fsops \cup {"narration.json"}
    /\ UNCHANGED <<script, queued,
                   prev, probe_tool, wav, aligned_files, existing_durs, avg,
                   tmp_files, durations, idx, images, mapped, segments, cues,
                   merged_dur, video_frames, final_dur, audio_dir, disk, ran>>

SyncLoad == SyncLoadFrom(NarrationInputs)

\* find_narration_files(items): one entry per item, the file (here: its id)
\* or None.  Without an audio directory no file exists.
AlignedFiles(its, w) ==
    [k \in 1..Len(its) |->
        IF w[its[k].id].kind = "missing" THEN None ELSE its[k].id]

SyncFind ==
    /\ script = "sync" /\ pc = "find"
    /\ \E dir \in Given("audio" \in prev.fsops, {prev.audio_dir}, BOOLEAN) :
       \E w \in Given("audio" \in prev.fsops, {prev.wav},
                      [Ids(items) -> AudioWorld]) :
         /\ ~dir => \A i \in Ids(items) : w[i].kind = "missing"
         /\ audio_dir' = dir
         /\ wav' = w
         /\ aligned_files' = AlignedFiles(items, w)
    /\ Continue("first_pass")
    /\ fsops' = fsops \cup {"audio"}
    /\ UNCHANGED <<script, queued,
                   prev, narration_json, probe_tool, items, existing_durs,
                   avg,
                   tmp_files, durations, idx, images, mapped, segments, cues,
                   merged_dur, video_frames, final_dur, disk, ran>>


\* ------------------------------------- sync: build_merged_audio_per_item

\* ffprobe_duration(p) on a file of the audio directory: the float ffprobe
\* prints, or None when what it prints is no number.  (On a corrupt file
\* ffprobe exits non-zero and check_output raises: see ProbeRaises.)
ffprobe_duration(f) == IF f.kind = "srcna" THEN None ELSE f.dur

ProbeRaises(f) == f.kind = "corrupt"

\* ffprobe_duration(tmp) on a chunk: its probe field.
ChunkProbe(f) == IF f.kind = "tmpna" THEN None ELSE f.dur

\* Lines 113-121: the durations of the present files that probe, in order.
RECURSIVE ExistingDurs(_, _)
ExistingDurs(files, w) ==
    IF files = <<>> THEN <<>>
    ELSE LET p == Head(files)
             rest == ExistingDurs(Tail(files), w)
         IN  IF p = None THEN rest
             ELSE IF ffprobe_duration(w[p]) = None THEN rest
             ELSE <<ffprobe_duration(w[p])>> \o rest

\* Line 122
Mean(durs) == IF durs # <<>> THEN Sum(durs) \div Len(durs) ELSE DEFAULT_AVG

\* Line 138
SilenceLength(a) == IF a > 0 THEN a ELSE FALLBACK_SILENCE

\* Lines 132-133: the duration recorded for a normalised chunk
NormalizedDuration(probe, a) == IF probe = None THEN a ELSE probe

\* Line 153: ffprobe_duration(t) or d
Reprobe(probe, d) == IF probe = None \/ probe = 0 THEN d ELSE probe

\* A slip: the placeholder is made but not appended.
AppendChunkDropsPlaceholder(tmps, chunk) ==
    IF chunk.placeholder THEN tmps ELSE Append(tmps, chunk)

\* Lines 134-135 and 140-141: tmp_files.append(tmp)
AppendChunk(tmps, chunk) == Append(tmps, chunk)

\* The first pass (lines 113-122).  ffprobe_duration is called outside the
\* try block: a probe that raises ends the run.
SyncFirstPass ==
    /\ script = "sync" /\ pc = "first_pass"
    /\ IF \E k \in 1..Len(aligned_files) :
             aligned_files[k] # None /\ ProbeRaises(wav[aligned_files[k]])
       THEN /\ Abort("probe_failed")
            /\ UNCHANGED <<existing_durs, avg>>
       ELSE /\ existing_durs' = ExistingDurs(aligned_files, wav)
            /\ avg' = Mean(existing_durs')
            /\ Continue("second_pass")
    /\ idx' = 0
    /\ UNCHANGED <<script, queued,
                   prev, narration_json, probe_tool, fsops, items, wav,
                   aligned_files,
                   tmp_files, durations, images, mapped, segments, cues,
                   merged_dur, video_frames, final_dur, audio_dir, disk, ran>>

\* The except branch (lines 155-160): unlink the chunks made so far, raise.
CleanupOnError ==
    /\ disk' = disk \ TmpPaths(tmp_files)
    /\ Abort("media_op_failed")

\* One turn of the loop of lines 126-135 for a present file: normalise it,
\* probe the chunk.
SyncNormalize ==
    /\ script = "sync" /\ pc = "second_pass"
    /\ idx < Len(aligned_files)
    /\ aligned_files[idx + 1] # None
    /\ ran' = ran \cup {"normalize"}
    /\ \E ok \in BOOLEAN :
         IF ok
         THEN LET f == wav[aligned_files[idx + 1]]
                  tmp == [path |-> <<"tmp_norm", idx + 1>>, dur |-> f.dur,
                          probe |-> ChunkProbe(f), placeholder |-> FALSE,
                          format |-> NormalizedFormat]
              IN  /\ tmp_files' = AppendChunk(tmp_files, tmp)
                  /\ durations' =
                         Append(durations, NormalizedDuration(tmp.probe, avg))
                  /\ disk' = disk \cup {tmp.path}
                  /\ idx' = idx + 1
                  /\ Continue("second_pass")
         ELSE /\ CleanupOnError
              /\ UNCHANGED <<tmp_files, durations, idx>>
    /\ UNCHANGED <<script, queued,
                   prev, narration_json, probe_tool, fsops, items, wav,
                   aligned_files, existing_durs, avg,
                   images, mapped, segments, cues,
                   merged_dur, video_frames, final_dur, audio_dir>>

\* A slip: a missing file treated as fatal, as the offline script does.
SyncSilenceAborts ==
    /\ script = "sync" /\ pc = "second_pass"
    /\ idx < Len(aligned_files)
    /\ aligned_files[idx + 1] = None
    /\ Abort("audio_not_generated")
    /\ UNCHANGED <<script, queued,
                   prev, narration_json, probe_tool, fsops, items, wav,
                   aligned_files, existing_durs, avg,
                   tmp_files, durations, idx, images, mapped, segments, cues,
                   merged_dur, video_frames, final_dur, audio_dir, disk, ran>>

\* One turn of the loop for a missing file (lines 136-141): a silence chunk.
\* ffmpeg cannot write into a directory that does not exist.
SyncSilence ==
    /\ script = "sync" /\ pc = "second_pass"
    /\ idx < Len(aligned_files)
    /\ aligned_files[idx + 1] = None
    /\ ran' = ran \cup {"silence"}
    /\ \E ok \in (IF audio_dir THEN BOOLEAN ELSE {FALSE}) :
         IF ok
         THEN LET sil_len == SilenceLength(avg)
                  tmp == [path |-> <<"tmp_norm", idx + 1>>, dur |-> sil_len,
                          probe |-> sil_len, placeholder |-> TRUE,
                          format |-> NormalizedFormat]
              IN  /\ tmp_files' = AppendChunk(tmp_files, tmp)
                  /\ durations' = Append(durations, sil_len)
                  /\ disk' = disk \cup {tmp.path}
                  /\ idx' = idx + 1
                  /\ Continue("second_pass")
         ELSE /\ CleanupOnError
              /\ UNCHANGED <<tmp_files, durations, idx>>
    /\ UNCHANGED <<script, queued,
                   prev, narration_json, probe_tool, fsops, items, wav,
                   aligned_files, existing_durs, avg,
                   images, mapped, segments, cues,
                   merged_dur, video_frames, final_dur, audio_dir>>

\* A slip: the concatenation does not wait for the last chunk.
SyncMergeEarly ==
    /\ script = "sync" /\ pc = "second_pass"
    /\ idx < Len(aligned_files)
    /\ ran' = ran \cup {"merge"}
    /\ \E ok \in (IF tmp_files # <<>> THEN BOOLEAN ELSE {FALSE}) :
         IF ok
         THEN /\ merged_dur' = Sum([k \in 1..Len(tmp_files) |-> tmp_files[k].dur])
              /\ durations' = [k \in 1..Len(tmp_files) |->
                                  Reprobe(tmp_files[k].probe, durations[k])]
              /\ disk' = disk \cup {<<"merged_narration_sync.wav", 0>>}
              /\ Continue("pick_images")
         ELSE /\ CleanupOnError
              /\ UNCHANGED <<merged_dur, durations>>
    /\ UNCHANGED <<script, queued,
                   prev, narration_json, probe_tool, fsops, items, wav,
                   aligned_files, existing_durs, avg,
                   tmp_files, idx, images, mapped, segments, cues,
                   video_frames, final_dur, audio_dir>>

\* Lines 143-154: concatenate the chunks, probe them again.  The concat
\* filter takes at least one input; its output is as long as its inputs.
SyncMerge ==
    /\ script = "sync" /\ pc = "second_pass"
    /\ idx = Len(aligned_files)
    /\ ran' = ran \cup {"merge"}
    /\ \E ok \in (IF tmp_files # <<>> THEN BOOLEAN ELSE {FALSE}) :
         IF ok
         THEN /\ merged_dur' = Sum([k \in 1..Len(tmp_files) |-> tmp_files[k].dur])
              /\ durations' = [k \in 1..Len(tmp_files) |->
                                  Reprobe(tmp_files[k].probe, durations[k])]
              /\ disk' = disk \cup {<<"merged_narration_sync.wav", 0>>}
              /\ Continue("pick_images")
         ELSE /\ CleanupOnError
              /\ UNCHANGED <<merged_dur, durations>>
    /\ UNCHANGED <<script, queued,
                   prev, narration_json, probe_tool, fsops, items, wav,
                   aligned_files, existing_durs, avg,
                   tmp_files, idx, images, mapped, segments, cues,
                   video_frames, final_dur, audio_dir>>


\* ------------------------------------------------- sync: images, segments

\* A slip: the listing is not sorted, and comes in another order the next
\* time the directory is read.
PickImageUnsorted(i, n) == (i + (IF prev.rerun THEN 1 ELSE 0)) % n

\* A slip: past the last image, the last image again.
PickImageNoWrap(i, n) == IF i < n THEN i ELSE n - 1

\* pick_images_for_items / main line 177: imgs[i % len(imgs)], 0-based
PickImage(i, n) == i % n

\* pick_images_for_items(len(items)): called after the audio was merged.
SyncPickImages ==
    /\ script = "sync" /\ pc = "pick_images"
    /\ \E n \in Given(prev.images # None, {prev.images}, 0..MaxImages) :
         /\ images' = n
         /\ IF n = 0
            THEN /\ Abort("no_images")
                 /\ UNCHANGED mapped
            ELSE /\ mapped' = [k \in 1..Len(items) |-> PickImage(k - 1, n)]
                 /\ Continue("segments")
    /\ idx' = 0
    /\ fsops' = fsops \cup {"assets"}
    /\ UNCHANGED <<script, queued,
                   prev, narration_json, probe_tool, items, wav,
                   aligned_files, existing_durs, avg,
                   tmp_files, durations, segments, cues,
                   merged_dur, video_frames, final_dur, audio_dir, disk, ran>>

\* Line 245
SegDur(dur) == dur + SEGMENT_PADDING

\* make_image_segment, line 173: fade = 0.5, the d= of both fades.
fade == Ms(500)

Max(a, b) == IF a >= b THEN a ELSE b

\* make_image_segment, line 175: the st= of the fade-out, max(0, dur-fade)
SyncFadeOutStart(dur) == Max(0, dur - fade)

\* zip(items, durations)
ZipLen(a, b) == IF Len(a) <= Len(b) THEN Len(a) ELSE Len(b)

\* One turn of the loop of lines 244-250.  A failing ffmpeg raises out of
\* main: nothing is cleaned up.
SyncMakeSegment ==
    /\ script = "sync" /\ pc = "segments"
    /\ idx < ZipLen(items, durations)
    /\ ran' = ran \cup {"segment"}
    /\ \E ok \in BOOLEAN :
         IF ok
         THEN LET seg_dur == SegDur(durations[idx + 1])
                  seg == [path |-> <<"seg", idx + 1>>, dur |-> seg_dur,
                          frames |-> Frames(seg_dur, FPS),
                          image |-> mapped[idx + 1],
                          fade |-> fade,
                          fade_out_st |-> SyncFadeOutStart(seg_dur)]
              IN  /\ segments' = Append(segments, seg)
                  /\ disk' = disk \cup {seg.path}
                  /\ idx' = idx + 1
                  /\ Continue("segments")
         ELSE /\ Abort("media_op_failed")
              /\ UNCHANGED <<segments, disk, idx>>
    /\ UNCHANGED <<script, queued,
                   prev, narration_json, probe_tool, fsops, items, wav,
                   aligned_files, existing_durs, avg,
                   tmp_files, durations, images, mapped, cues,
                   merged_dur, video_frames, final_dur, audio_dir>>

\* The frames of the stream copy of the segments.
TotalFrames(segs) == Sum([k \in 1..Len(segs) |-> segs[k].frames])

\* concat_segments: write the list, run ffmpeg, remove the list.  When
\* ffmpeg fails the list stays.
SyncConcatSegments ==
    /\ script = "sync" /\ pc = "segments"
    /\ idx = ZipLen(items, durations)
    /\ ran' = ran \cup {"concat_video"}
    /\ \E ok \in BOOLEAN :
         IF ok
         THEN /\ video_frames' = TotalFrames(segments)
              /\ disk' = disk \cup {<<"full_nosound.mp4", 0>>}
              /\ Continue("srt")
         ELSE /\ disk' = disk \cup {<<"full_nosound.txt", 0>>}
              /\ Abort("media_op_failed")
              /\ UNCHANGED video_frames
    /\ UNCHANGED <<script, queued,
                   prev, narration_json, probe_tool, fsops, items, wav,
                   aligned_files, existing_durs, avg,
                   tmp_files, durations, idx, images, mapped, segments, cues,
                   merged_dur, final_dur, audio_dir>>

\* ---------------------------------------------------------- sync: build_srt

\* Line 198: et = st + dur
SyncEnd(st, dur) == st + dur

\* A slip: the gap taken off the cursor instead of added.
SyncNextStartBack(et) == et - gap

\* Line 204: start = et + gap
SyncNextStart(et) == et + gap

\* build_srt's loop from item i on, the cursor at start.
RECURSIVE SyncCues(_, _, _)
SyncCues(durs, i, start) ==
    IF i > Len(durs) THEN <<>>
    ELSE LET st == start
             et == SyncEnd(st, durs[i])
         IN  <<[index |-> i, st |-> st, et |-> et,
                line |-> <<fmt(st), fmt(et)>>]>>
                 \o SyncCues(durs, i + 1, SyncNextStart(et))

build_srt(its, durs) == SyncCues(SubSeq(durs, 1, ZipLen(its, durs)), 1, 0)

SyncBuildSrt ==
    /\ script = "sync" /\ pc = "srt"
    /\ ran' = ran \cup {"srt"}
    /\ cues' = build_srt(items, durations)
    /\ disk' = disk \cup {<<"captions_sync.srt", 0>>}
    /\ Continue("mux")
    /\ UNCHANGED <<script, queued,
                   prev, narration_json, probe_tool, fsops, items, wav,
                   aligned_files, existing_durs, avg,
                   tmp_files, durations, idx, images, mapped, segments,
                   merged_dur, video_frames, final_dur, audio_dir>>

\* ------------------------------------------------- sync: mux and cleanup

Min(a, b) == IF a <= b THEN a ELSE b

\* A slip: without -shortest the output runs until its longest stream ends.
Longest(video, audio) == Max(video, audio)

\* ffmpeg -shortest: the output ends with the shorter of its two inputs.
Shortest(video, audio) == Min(video, audio)

\* burn_audio_subs
SyncBurn ==
    /\ script = "sync" /\ pc = "mux"
    /\ ran' = ran \cup {"mux"}
    /\ \E ok \in BOOLEAN :
         IF ok
         THEN /\ final_dur' =
                     Shortest(FramesToTicks(video_frames, FPS), merged_dur)
              /\ disk' = disk \cup {<<"final_video_sync.mp4", 0>>}
              /\ Continue("cleanup")
         ELSE /\ Abort("media_op_failed")
              /\ UNCHANGED <<final_dur, disk>>
    /\ UNCHANGED <<script, queued,
                   prev, narration_json, probe_tool, fsops, items, wav,
                   aligned_files, existing_durs, avg,
                   tmp_files, durations, idx, images, mapped, segments, cues,
                   merged_dur, video_frames, audio_dir>>

\* cleanup_tmp(tmp_converted), then main returns.
SyncCleanup ==
    /\ script = "sync" /\ pc = "cleanup"
    /\ disk' = disk \ TmpPaths(tmp_files)
    /\ pc' = "done"
    /\ exit_status' = 0
    /\ UNCHANGED <<attempts, script, queued, prev, narration_json,
                   probe_tool, fsops, fatal, items,
                   wav, aligned_files, existing_durs,
                   avg, tmp_files, durations, idx, images, mapped, segments,
                   cues, merged_dur, video_frames, final_dur, audio_dir, ran>>

\* ------------------------------------------ offline: start, load, images

\* ensure_ffmpeg(), then TMP.mkdir and ASSETS.mkdir.
OfflineEnsureFfmpeg ==
    /\ script = "offline" /\ pc = "check_tools"
    /\ \E ok \in BOOLEAN :
         IF ok
         THEN /\ Continue("load")
              /\ fsops' = fsops \cup {"tmp", "assets"}
         ELSE /\ Abort("tool_unavailable")
              /\ UNCHANGED fsops
    /\ UNCHANGED <<script, queued, prev, narration_json, probe_tool,
                   items, wav, aligned_files, existing_durs, avg,
                   tmp_files, durations, idx, images, mapped, segments, cues,
                   merged_dur, video_frames, final_dur, audio_dir, disk, ran>>

\* load_narration() on a file that is one of inputs, or is not there.
\* int() of an id that is no number raises out of sorted() (line 56).
OfflineLoadFrom(inputs) ==
    /\ script = "offline" /\ pc = "load"
    /\ \E exists \in Given("narration.json" \in prev.fsops, {TRUE}, BOOLEAN) :
         IF exists
         THEN \E d \in Given("narration.json" \in prev.fsops,
                            {prev.narration_json}, inputs) :
                 /\ narration_json' = d
                 /\ IF HasBadId(d)
                    THEN /\ Abort("invalid_record")
                         /\ UNCHANGED items
                    ELSE /\ items' = load_narration(d)
                         /\ Continue("list_images")
         ELSE /\ Abort("no_narration")
              /\ UNCHANGED <<items, narration_json>>
    /\ fsops' = fsops \cup {"narration.json"}
    /\ UNCHANGED <<script, queued,
                   prev, probe_tool, wav, aligned_files, existing_durs, avg,
                   tmp_files, durations, idx, images, mapped, segments, cues,
                   merged_dur, video_frames, final_dur, audio_dir, disk, ran>>

OfflineLoad == OfflineLoadFrom(NarrationInputs)

\* Lines 154-157: list the images before anything is generated.
OfflineListImages ==
    /\ script = "offline" /\ pc = "list_images"
    /\ \E n \in Given(prev.images # None, {prev.images}, 0..MaxImages) :
         /\ images' = n
         /\ IF n = 0 THEN Abort("no_images") ELSE Continue("tts_init")
    /\ fsops' = fsops \cup {"assets"}
    /\ UNCHANGED <<script, queued,
                   prev, narration_json, probe_tool, items, wav,
                   aligned_files, existing_durs, avg,
                   tmp_files, durations, idx, mapped, segments, cues,
                   merged_dur, video_frames, final_dur, audio_dir, disk, ran>>

\* ------------------------------ offline: generate_missing_audio_offline

\* Lines 62-75: make the audio directory, import and start pyttsx3.
OfflineTtsInit ==
    /\ script = "offline" /\ pc = "tts_init"
    /\ audio_dir' = TRUE
    /\ \E w \in Given("audio" \in prev.fsops, {prev.wav},
                      [Ids(items) -> OfflineAudioWorld]) : wav' = w
    /\ \E ok \in BOOLEAN :
         IF ok THEN Continue("generate") ELSE Abort("tts_unavailable")
    /\ idx' = 0
    /\ fsops' = fsops \cup {"audio"}
    /\ UNCHANGED <<script, queued,
                   prev, narration_json, probe_tool, items, aligned_files,
                   existing_durs, avg,
                   tmp_files, durations, images, mapped, segments, cues,
                   merged_dur, video_frames, final_dur, disk, ran>>

\* One turn of the loop of lines 77-92: a file that exists is kept; for one
\* that does not, the engine is asked to write it, and may not.
OfflineGenerate ==
    /\ script = "offline" /\ pc = "generate"
    /\ idx < Len(items)
    /\ LET nid == items[idx + 1].id
       IN  IF wav[nid].kind # "missing"
           THEN UNCHANGED <<wav, disk, ran>>
           ELSE /\ ran' = ran \cup {"tts"}
                /\ \/ \E d \in DurChoices :
                        /\ wav' = [wav EXCEPT ![nid] = [kind |-> "ok", dur |-> d]]
                        /\ disk' = disk \cup {<<"narration", nid>>}
                   \/ UNCHANGED <<wav, disk>>
    /\ idx' = idx + 1
    /\ Continue("generate")
    /\ UNCHANGED <<script, queued,
                   prev, narration_json, probe_tool, fsops, items,
                   aligned_files, existing_durs, avg,
                   tmp_files, durations, images, mapped, segments, cues,
                   merged_dur, video_frames, final_dur, audio_dir>>

OfflineGenerateDone ==
    /\ script = "offline" /\ pc = "generate"
    /\ idx = Len(items)
    /\ idx' = 0
    /\ Continue("process")
    /\ UNCHANGED <<script, queued,
                   prev, narration_json, probe_tool, fsops, items, wav,
                   aligned_files, existing_durs, avg,
                   tmp_files, durations, images, mapped, segments, cues,
                   merged_dur, video_frames, final_dur, audio_dir, disk, ran>>

\* ------------------------------------------- offline: the segment loop

\* create_video_segment, line 104: fade_d = 0.5, the d= of both fades.
fade_d == Ms(500)

\* create_video_segment, line 109: the st= of the fade-out
OfflineFadeOutStart(duration) == duration - fade_d

\* Lines 174-184 for an item whose file lasts f.dur: the segment is
\* rendered and the file joins the audio list.  run() exits with 1 when
\* ffmpeg fails.
OfflineSegment(nid, f) ==
    /\ durations' = Append(durations, f.dur)
    /\ ran' = ran \cup {"segment"}
    /\ \E ok \in BOOLEAN :
         IF ok
         THEN LET seg == [path |-> <<"seg", nid>>, dur |-> f.dur,
                          frames |-> Frames(f.dur, OFFLINE_RATE),
                          image |-> PickImage(idx, images),
                          fade |-> fade_d,
                          fade_out_st |-> OfflineFadeOutStart(f.dur)]
                  chunk == [path |-> <<"narration", nid>>,
                            dur |-> f.dur, probe |-> f.dur,
                            placeholder |-> FALSE,
                            format |-> AudioFormat(f)]
              IN  /\ segments' = Append(segments, seg)
                  /\ tmp_files' = AppendChunk(tmp_files, chunk)
                  /\ disk' = disk \cup {seg.path}
                  /\ idx' = idx + 1
                  /\ Continue("process")
         ELSE /\ Abort("media_op_failed")
              /\ UNCHANGED <<segments, tmp_files, disk, idx>>

\* get_audio_duration's except branch runs ffprobe: the first time it does,
\* the run learns whether ffprobe is installed.
ProbeToolFound ==
    IF probe_tool = "unknown" THEN {"installed", "absent"} ELSE {probe_tool}

\* One turn of the loop of lines 166-184.  get_audio_duration reads the
\* file with wave and, when wave refuses it, asks ffprobe; it raises when
\* ffprobe cannot be started or cannot read the file.
OfflineProcess ==
    /\ script = "offline" /\ pc = "process"
    /\ idx < Len(items)
    /\ LET nid == items[idx + 1].id
           f == wav[nid]
       IN  IF f.kind = "missing"
           THEN /\ Abort("audio_not_generated")
                /\ UNCHANGED <<durations, segments, tmp_files, disk, idx, ran,
                               probe_tool>>
           ELSE IF f.kind = "ok"
           THEN /\ OfflineSegment(nid, f)
                /\ UNCHANGED probe_tool
           ELSE \E found \in ProbeToolFound :
                  /\ probe_tool' = found
                  /\ IF found = "absent"
                     THEN /\ Abort("tool_unavailable")
                          /\ UNCHANGED <<durations, segments, tmp_files, disk,
                                         idx, ran>>
                     ELSE IF f.kind = "corrupt"
                     THEN /\ Abort("probe_failed")
                          /\ UNCHANGED <<durations, segments, tmp_files, disk,
                                         idx, ran>>
                     ELSE OfflineSegment(nid, f)
    /\ UNCHANGED <<script, queued, prev, narration_json, fsops,
                   items, wav, aligned_files, existing_durs, avg,
                   images, mapped, cues,
                   merged_dur, video_frames, final_dur, audio_dir>>

\* Lines 186-193: the concat list, then the stream copy.  A list that names
\* no file gives ffmpeg nothing to copy.
OfflineConcatVideo ==
    /\ script = "offline" /\ pc = "process"
    /\ idx = Len(items)
    /\ ran' = ran \cup {"concat_video"}
    /\ \E ok \in (IF segments # <<>> THEN BOOLEAN ELSE {FALSE}) :
         IF ok
         THEN /\ video_frames' = TotalFrames(segments)
              /\ disk' = disk \cup {<<"concat_list.txt", 0>>,
                                    <<"video_only.mp4", 0>>}
              /\ Continue("concat_audio")
         ELSE /\ disk' = disk \cup {<<"concat_list.txt", 0>>}
              /\ Abort("media_op_failed")
              /\ UNCHANGED video_frames
    /\ UNCHANGED <<script, queued,
                   prev, narration_json, probe_tool, fsops, items, wav,
                   aligned_files, existing_durs, avg,
                   tmp_files, durations, idx, images, mapped, segments, cues,
                   merged_dur, final_dur, audio_dir>>

\* Lines 195-202: the audio list, then the stream copy of the item files.
OfflineConcatAudio ==
    /\ script = "offline" /\ pc = "concat_audio"
    /\ ran' = ran \cup {"merge"}
    /\ \E ok \in BOOLEAN :
         IF ok
         THEN /\ merged_dur' = Sum([k \in 1..Len(tmp_files) |-> tmp_files[k].dur])
              /\ disk' = disk \cup {<<"audio_list.txt", 0>>,
                                    <<"audio_full.wav", 0>>}
              /\ Continue("srt")
         ELSE /\ disk' = disk \cup {<<"audio_list.txt", 0>>}
              /\ Abort("media_op_failed")
              /\ UNCHANGED merged_dur
    /\ UNCHANGED <<script, queued,
                   prev, narration_json, probe_tool, fsops, items, wav,
                   aligned_files, existing_durs, avg,
                   tmp_files, durations, idx, images, mapped, segments, cues,
                   video_frames, final_dur, audio_dir>>

\* ----------------------------------------------- offline: create_srt_file

\* Line 136: end = current_time + dur - 0.1
OfflineEnd(current_time, dur) == current_time + dur - OFFLINE_GAP

\* Line 144: current_time += dur
OfflineNextTime(current_time, dur) == current_time + dur

\* create_srt_file's loop from item i on.
RECURSIVE OfflineCues(_, _, _)
OfflineCues(durs, i, current_time) ==
    IF i > Len(durs) THEN <<>>
    ELSE LET st == current_time
             et == OfflineEnd(current_time, durs[i])
         IN  <<[index |-> i, st |-> st, et |-> et,
                line |-> <<fmt(st), fmt(et)>>]>>
                 \o OfflineCues(durs, i + 1,
                                OfflineNextTime(current_time, durs[i]))

create_srt_file(durs) == OfflineCues(durs, 1, 0)

OfflineCreateSrt ==
    /\ script = "offline" /\ pc = "srt"
    /\ ran' = ran \cup {"srt"}
    /\ cues' = create_srt_file(durations)
    /\ disk' = disk \cup {<<"subs.srt", 0>>}
    /\ Continue("mux")
    /\ UNCHANGED <<script, queued,
                   prev, narration_json, probe_tool, fsops, items, wav,
                   aligned_files, existing_durs, avg,
                   tmp_files, durations, idx, images, mapped, segments,
                   merged_dur, video_frames, final_dur, audio_dir>>

\* Lines 208-227: the final render; main returns.
OfflineMux ==
    /\ script = "offline" /\ pc = "mux"
    /\ ran' = ran \cup {"mux"}
    /\ \E ok \in BOOLEAN :
         IF ok
         THEN /\ final_dur' = Shortest(FramesToTicks(video_frames, OFFLINE_RATE),
                                       merged_dur)
              /\ disk' = disk \cup {<<"final_video.mp4", 0>>}
              /\ pc' = "done"
              /\ exit_status' = 0
              /\ UNCHANGED <<fatal, attempts>>
         ELSE /\ Abort("media_op_failed")
              /\ UNCHANGED <<final_dur, disk>>
    /\ UNCHANGED <<script, queued,
                   prev, narration_json, probe_tool, fsops, items, wav,
                   aligned_files, existing_durs, avg,
                   tmp_files, durations, idx, images, mapped, segments, cues,
                   merged_dur, video_frames, audio_dir>>

OfflineNext ==
    \/ OfflineEnsureFfmpeg
    \/ OfflineLoad
    \/ OfflineListImages
    \/ OfflineTtsInit
    \/ OfflineGenerate
    \/ OfflineGenerateDone
    \/ OfflineProcess
    \/ OfflineConcatVideo
    \/ OfflineConcatAudio
    \/ OfflineCreateSrt
    \/ OfflineMux

SyncNext ==
    \/ SyncCheckTools
    \/ SyncLoad
    \/ SyncFind
    \/ SyncFirstPass
    \/ SyncNormalize
    \/ SyncSilence
    \/ SyncMerge
    \/ SyncPickImages
    \/ SyncMakeSegment
    \/ SyncConcatSegments
    \/ SyncBuildSrt
    \/ SyncBurn
    \/ SyncCleanup

Next == SyncNext \/ OfflineNext

Spec == Init /\ [][Next]_vars


\* ------------------------------------------------------------------ claims

Succeeded == pc = "done" /\ exit_status = 0

\* The sum of the first n durations.
PrefixSum(durs, n) == Sum(SubSeq(durs, 1, n))

\* The gap of the script that runs.
ScriptGap == IF script = "sync" THEN gap ELSE OFFLINE_GAP

\* A gap clamped to [0, d].
ClampGap(g, d) == IF g < 0 THEN 0 ELSE IF g > d THEN d ELSE g

\* C1: cue k starts at exactly the sum of the durations of the items
\* before it: the cursor advances by d_k only, never by the gap.
C1_CueStartsAtPrefixSum ==
    \A k \in 1..Len(cues) : cues[k].st = PrefixSum(durations, k - 1)

\* C2: cue k ends at start_k + d_k - gap, with the gap clamped to [0, d_k],
\* so that start_k <= end_k <= start_k + d_k.
C2_CueEndClamped ==
    \A k \in 1..Len(cues) :
        /\ cues[k].et =
               cues[k].st + durations[k] - ClampGap(ScriptGap, durations[k])
        /\ cues[k].st <= cues[k].et
        /\ cues[k].et <= cues[k].st + durations[k]

\* C3: the cues are ordered and do not overlap: cue k ends no later than
\* cue k+1 starts, whatever the durations.
C3_CuesOrdered ==
    \A k \in 1..(Len(cues) - 1) : cues[k].et <= cues[k + 1].st

\* C3's case: three cues, the middle item shorter than either gap.
C3_Witness ==
    /\ Len(cues) = 3
    /\ durations = <<Ms(2000), Ms(30), Ms(1000)>>

\* C4: a successful run over N items holds N chunks, N segments and N
\* cues, one of each per item and in item order, whichever items lack
\* audio.
C4_OnePerItem ==
    Succeeded =>
        /\ Len(tmp_files) = Len(items)
        /\ Len(durations) = Len(items)
        /\ Len(segments) = Len(items)
        /\ Len(cues) = Len(items)
        /\ \A k \in 1..Len(items) :
              /\ cues[k].index = k
              /\ IF script = "sync"
                 THEN /\ tmp_files[k].path = <<"tmp_norm", k>>
                      /\ tmp_files[k].placeholder = (aligned_files[k] = None)
                      /\ segments[k].path = <<"seg", k>>
                 ELSE /\ tmp_files[k].path = <<"narration", items[k].id>>
                      /\ segments[k].path = <<"seg", items[k].id>>

\* C4's case: a successful run over three items of which the first and the
\* last have no audio file.
C4_Witness ==
    /\ Succeeded
    /\ script = "sync"
    /\ aligned_files = <<None, 2, None>>

\* C5: for every item the duration of its segment is the resolved duration
\* of its chunk, and the cursor advances past its cue by that duration.
C5_SegmentAndCursorMatch ==
    Succeeded =>
        /\ \A k \in 1..Len(segments) : segments[k].dur = durations[k]
        /\ \A k \in 1..(Len(cues) - 1) :
              cues[k + 1].st - cues[k].st = durations[k]

\* The positions of the items whose audio file is present.
Present == {k \in 1..Len(aligned_files) : aligned_files[k] # None}

\* C6: every placeholder lasts the arithmetic mean of the resolved
\* durations of the items whose audio is present; with no item present,
\* every placeholder has the one fallback duration.
C6_PlaceholderIsMean ==
    (script = "sync" /\ merged_dur # None) =>
        \A k \in 1..Len(tmp_files) :
            tmp_files[k].placeholder =>
                IF Present # {}
                THEN durations[k] * Cardinality(Present) =
                         Sum([j \in 1..Len(durations) |->
                                 IF j \in Present THEN durations[j] ELSE 0])
                ELSE durations[k] = DEFAULT_AVG

\* One frame period, 1/FPS seconds.
FramePeriod == TicksPerSec \div FPS

Abs(x) == IF x < 0 THEN -x ELSE x

SegmentSum == Sum([k \in 1..Len(segments) |-> segments[k].dur])

\* C7: the segment durations sum to the duration of the merged audio
\* track and to the duration of the final video, each within one frame
\* period.
C7_SumsAgree ==
    Succeeded =>
        /\ Abs(SegmentSum - merged_dur) <= FramePeriod
        /\ Abs(SegmentSum - final_dur) <= FramePeriod

C9_UnreadableIsDemoted ==
    /\ fatal # "probe_failed"
    /\ \A k \in 1..Len(tmp_files) :
          tmp_files[k].probe = None => tmp_files[k].placeholder

\* The diagnostics of a missing required input.
MissingInputFatal == {"no_narration", "no_images"}

\* C10: a run that lacks a required input ends with a non-zero status
\* before any processing step has run and without having written a file.
C10_AbortBeforeProcessing ==
    fatal \in MissingInputFatal =>
        /\ exit_status = 1
        /\ ran = {}
        /\ disk = {}

\* ------------------------------------------------------------------- C11

\* C11: a required tool that is missing is found missing by the first
\* action of the run, before any directory, file or media operation: a run
\* that ends for want of a tool has touched no directory or file, started
\* no processing step and written nothing.
C11_ToolsCheckedFirst ==
    fatal = "tool_unavailable" => fsops = {} /\ ran = {} /\ disk = {}

\* ------------------------------------------------------ merge_narration.py

\* The ids whose narration_NN.wav the audio directory may hold when the
\* merger runs, and how long such a file may last.
MergeIds == {1, 20, 100}

MergeDurs == {Ms(1000), Ms(2000)}

\* What a narration_NN.wav may be for the merger: a PCM WAV file of some
\* format, or a file wave.open refuses.
MergeWorld ==
    [kind : {"ok"}, dur : MergeDurs, format : Formats]
        \cup {[kind |-> "corrupt", dur |-> 0,
               format |-> WavFormat(1, 2, 22050, "other")]}

RECURSIVE DigitsOf(_)
DigitsOf(n) == IF n < 10 THEN <<n>> ELSE Append(DigitsOf(n \div 10), n % 10)

\* f"{id:02d}": at least two digits.
Pad2(n) == IF n < 10 THEN <<0, n>> ELSE DigitsOf(n)

\* The order of two names narration_<a>.wav and narration_<b>.wav as
\* strings: the first differing character decides, and the dot that ends
\* the shorter number sorts before every digit.
RECURSIVE LexLess(_, _)
LexLess(a, b) ==
    IF a = <<>> THEN b # <<>>
    ELSE IF b = <<>> THEN FALSE
    ELSE IF Head(a) # Head(b) THEN Head(a) < Head(b)
    ELSE LexLess(Tail(a), Tail(b))

\* sorted(AUDIO_DIR.glob("narration_*.wav")): the ids of the files of the
\* directory S, in the order of their names.
RECURSIVE SortedNames(_)
SortedNames(S) ==
    IF S = {} THEN <<>>
    ELSE LET m == CHOOSE x \in S :
                     \A y \in S \ {x} : LexLess(Pad2(x), Pad2(y))
         IN  <<m>> \o SortedNames(S \ {m})

list_wavs(w) == SortedNames(DOMAIN w)

\* inspect_wav on every file of the list.
Infos(wavs, w) == [k \in 1..Len(wavs) |-> w[wavs[k]].format]

\* Lines 41-55: some file differs from the first in one of the four keys.
mismatch(infos) ==
    \E k \in 2..Len(infos) :
       \E key \in {"nchannels", "sampwidth", "framerate", "comptype"} :
          infos[k][key] # infos[1][key]

\* main returns: the interpreter ends with status 0, whatever was printed.
Return(condition) ==
    /\ pc' = "done"
    /\ exit_status' = 0
    /\ fatal' = condition
    /\ UNCHANGED attempts

MergeInit ==
    /\ script = "merge"
    /\ pc = "list"
    /\ exit_status = None
    /\ fatal = "none"
    /\ attempts = 0
    /\ queued = <<>>
    /\ items = <<>>
    /\ wav = <<>>
    /\ aligned_files = <<>>
    /\ existing_durs = <<>>
    /\ avg = None
    /\ tmp_files = <<>>
    /\ durations = <<>>
    /\ idx = 0
    /\ images = None
    /\ mapped = <<>>
    /\ segments = <<>>
    /\ cues = <<>>
    /\ merged_dur = None
    /\ video_frames = None
    /\ final_dur = None
    /\ audio_dir = FALSE
    /\ disk = {}
    /\ ran = {}
    /\ probe_tool = "unknown"
    /\ fsops = {}
    /\ narration_json = <<>>
    /\ prev = FirstRun

\* Lines 32-35: list the files; with none, print and return.
MergeList ==
    /\ script = "merge" /\ pc = "list"
    /\ \E dir \in BOOLEAN :
       \E S \in SUBSET MergeIds :
       \E w \in [S -> MergeWorld] :
         /\ ~dir => S = {}
         /\ audio_dir' = dir
         /\ wav' = w
         /\ aligned_files' = list_wavs(w)
         /\ IF S = {} THEN Return("no_narration") ELSE Continue("inspect")
    /\ fsops' = fsops \cup {"audio"}
    /\ UNCHANGED <<script, queued,
                   prev, narration_json, probe_tool, items, existing_durs,
                   avg,
                   tmp_files, durations, idx, images, mapped, segments, cues,
                   merged_dur, video_frames, final_dur, disk, ran>>

\* Lines 37-55: read every header (wave.open raises on a file it cannot
\* read, and no one catches that); on a mismatch print the formats and
\* return.
MergeInspect ==
    /\ script = "merge" /\ pc = "inspect"
    /\ IF \E k \in 1..Len(aligned_files) :
             wav[aligned_files[k]].kind = "corrupt"
       THEN Abort("probe_failed")
       ELSE IF mismatch(Infos(aligned_files, wav))
       THEN Return("format_mismatch")
       ELSE Continue("write")
    /\ UNCHANGED <<script, queued,
                   prev, narration_json, probe_tool, fsops, items, wav,
                   aligned_files,
                   existing_durs, avg,
                   tmp_files, durations, idx, images, mapped, segments, cues,
                   merged_dur, video_frames, final_dur, audio_dir, disk, ran>>

\* Lines 57-68: write merged_narration.wav with the first file's format and
\* every file's frames, in list order.
MergeWrite ==
    /\ script = "merge" /\ pc = "write"
    /\ ran' = ran \cup {"merge"}
    /\ tmp_files' = [k \in 1..Len(aligned_files) |->
                        LET f == wav[aligned_files[k]]
                        IN  [path |-> <<"narration", aligned_files[k]>>,
                             dur |-> f.dur, probe |-> f.dur,
                             placeholder |-> FALSE, format |-> f.format]]
    /\ merged_dur' = Sum([k \in 1..Len(aligned_files) |->
                             wav[aligned_files[k]].dur])
    /\ disk' = disk \cup {<<"merged_narration.wav", 0>>}
    /\ Return("none")
    /\ UNCHANGED <<script, queued,
                   prev, narration_json, probe_tool, fsops, items, wav,
                   aligned_files,
                   existing_durs, avg,
                   durations, idx, images, mapped, segments, cues,
                   video_frames, final_dur, audio_dir>>

MergeNext == MergeList \/ MergeInspect \/ MergeWrite

MergeSpec == MergeInit /\ [][MergeNext]_vars

\* ------------------------------------------------------------------- C12

Terminated == pc \in {"done", "exit"}

\* C12: a run that has ended has ended in one of two ways: with status 0
\* and no fatal condition met, or with a fatal condition and a status other
\* than 0; no fatal condition ends with status 0.
C12_FatalIsNonZero ==
    Terminated =>
        \/ exit_status = 0 /\ fatal = "none"
        \/ exit_status \notin {0, None} /\ fatal # "none"

\* ------------------------------------------------------------------- C13

\* The chunks handed to the concatenation agree in all four properties.
ChunksAgree ==
    \A j, k \in 1..Len(tmp_files) : tmp_files[j].format = tmp_files[k].format

\* C13: a merged track is written only if every chunk agrees on channel
\* count, sample width, sample rate and compression type; a concatenation
\* started on chunks that differ is a fatal error and writes no track.
C13_MergedOnlyIfFormatsAgree ==
    /\ merged_dur # None => ChunksAgree
    /\ "merge" \in ran /\ ~ChunksAgree => fatal # "none" /\ merged_dur = None

\* ------------------------------------------------------------------- C14

\* C14: the images are assigned in a cycle: the item at 0-based position k
\* is shown with image k mod n of the n sorted images, in the map the sync
\* script builds and in every rendered segment of either script.
C14_ImagesCycle ==
    /\ \A k \in 1..Len(mapped) : mapped[k] = (k - 1) % images
    /\ \A k \in 1..Len(segments) : segments[k].image = (k - 1) % images

\* More items than images: the cycle has wrapped to the first image.
C14_Witness ==
    /\ Succeeded
    /\ images >= 2
    /\ Len(segments) > images
    /\ segments[images + 1].image = 0

\* ------------------------------------------------------------- C15, C16

\* C15: the fade length used for a segment of duration d is
\* min(fixed fade length, d/2), so it never exceeds d/2.
C15_FadeClamped ==
    \A k \in 1..Len(segments) :
       LET s == segments[k]
       IN  /\ 2 * s.fade = Min(2 * Ms(500), s.dur)
           /\ 2 * s.fade <= s.dur

\* C16: the fade-out of a segment of duration d starts at a time that is
\* not negative and ends exactly at d.
C16_FadeOutEndsAtD ==
    \A k \in 1..Len(segments) :
       LET s == segments[k]
       IN  /\ s.fade_out_st >= 0
           /\ s.fade_out_st + s.fade = s.dur

\* ------------------------------------------------------------------- C17

\* The duration of the concatenated video, at the frame rate of its script.
VideoDur ==
    FramesToTicks(video_frames, IF script = "sync" THEN FPS ELSE OFFLINE_RATE)

TextOf(k, shape) ==
    IF shape = "empty" THEN <<>> ELSE IF shape = "blank" THEN <<0>> ELSE <<k>>

\* narration.json as anyone may have written it: up to MaxItems records,
\* each with an id that is absent, 1, 2 or no number, and with any text.
RawInputs ==
    UNION {{[k \in 1..n |-> [id |-> ids[k], text |-> TextOf(k, shapes[k])]] :
                ids \in [1..n -> {None, 1, 2, BadId}],
                shapes \in [1..n -> {"empty", "blank", "letter"}]} :
           n \in 0..MaxItems}

RawSyncLoad == SyncLoadFrom(RawInputs)

RawOfflineLoad == OfflineLoadFrom(RawInputs)

\* find_narration_files, line 84, and the offline script's lines 80 and
\* 169: the audio file of an id.
AudioPath(id) == <<"narration", Pad2(id)>>

\* The start of either assemble script, up to the loaded list.
LoaderNext ==
    \/ SyncCheckTools
    \/ OfflineEnsureFfmpeg
    \/ RawSyncLoad
    \/ RawOfflineLoad

LoaderSpec == Init /\ [][LoaderNext]_vars

\* ------------------------------------------------------------------- C18

\* str.strip() on a text: leading and trailing blanks removed.
RECURSIVE strip(_)
strip(t) ==
    IF t = <<>> THEN <<>>
    ELSE IF Head(t) = 0 THEN strip(Tail(t))
    ELSE IF t[Len(t)] = 0 THEN strip(SubSeq(t, 1, Len(t) - 1))
    ELSE t

\* The loader has returned its list.
Loaded == pc \in {"find", "list_images"}

\* C18: the list the loader returns holds no record whose text is empty
\* after trimming and is not empty; the loader never ends the run because
\* of an invalid record, and ends it exactly when narration.json is absent
\* or the list would be empty.
C18_LoaderSkipsAndNeverAborts ==
    /\ Loaded =>
          /\ items # <<>>
          /\ \A k \in 1..Len(items) : strip(items[k].text) # <<>>
    /\ fatal # "invalid_record"

\* ------------------------------------------------------------------- C19

\* The place in narration.json of the record with the letter text t.
InputPos(t) ==
    CHOOSE k \in 1..Len(narration_json) : narration_json[k].text = t

\* The loaded records that can be told apart: those with a letter text.
Lettered == {k \in 1..Len(items) : strip(items[k].text) # <<>>}

\* Records without id, or with the id of another record, are still in
\* their input order.
TiesKeepInputOrder ==
    \A i, j \in Lettered :
       LET p == InputPos(items[i].text)
           q == InputPos(items[j].text)
       IN  (i < j /\ SortKey(narration_json[p]) = SortKey(narration_json[q]))
               => p < q

\* C19: the loaded list is in ascending order of the items' ids, and
\* records without id or with a repeated id keep their input order.
C19_AscendingAndStable ==
    Loaded =>
        /\ \A i, j \in 1..Len(items) :
              (i < j /\ items[i].id # None /\ items[j].id # None)
                  => items[i].id <= items[j].id
        /\ TiesKeepInputOrder

\* ------------------------------------------------------------------- C20

\* C20: after loading, every item has an id, no two items have the same
\* id, and so no two items resolve to the same audio file.
C20_IdsDistinct ==
    Loaded =>
        /\ \A k \in 1..Len(items) : items[k].id # None
        /\ \A i, j \in 1..Len(items) :
              i # j => /\ items[i].id # items[j].id
                       /\ AudioPath(items[i].id) # AudioPath(items[j].id)

\* ------------------------------------------------- a second run, a resumed run

\* The script is started again on the same machine and the same inputs:
\* main begins anew, and what the earlier run saw and made is remembered.
Restart(earlier) ==
    /\ prev' = earlier
    /\ pc' = "check_tools"
    /\ exit_status' = None
    /\ fatal' = "none"
    /\ attempts' = 0
    /\ queued' = <<>>
    /\ items' = <<>>
    /\ wav' = <<>>
    /\ aligned_files' = <<>>
    /\ existing_durs' = <<>>
    /\ avg' = None
    /\ tmp_files' = <<>>
    /\ durations' = <<>>
    /\ idx' = 0
    /\ images' = None
    /\ mapped' = <<>>
    /\ segments' = <<>>
    /\ cues' = <<>>
    /\ merged_dur' = None
    /\ video_frames' = None
    /\ final_dur' = None
    /\ audio_dir' = FALSE
    /\ disk' = {}
    /\ ran' = {}
    /\ fsops' = {}
    /\ narration_json' = <<>>
    /\ UNCHANGED <<script, probe_tool>>

\* What this run leaves to the next: the inputs it has looked at, with the
\* audio directory as it is now, and what it has computed.
Earlier(w) ==
    [rerun |-> TRUE, ended |-> pc = "done", fsops |-> fsops,
     narration_json |-> narration_json, wav |-> w, audio_dir |-> audio_dir,
     images |-> images, mapped |-> mapped, durations |-> durations,
     segments |-> segments, cues |-> cues,
     cut_id |-> None, cut_full |-> None]

\* The run has ended with status 0, or is stopped between two steps, and
\* the script is started again.
Rerun ==
    /\ ~prev.rerun
    /\ pc # "exit"
    /\ Restart(Earlier(wav))

\* What is left of a narration file of duration full whose writing was cut
\* short: a file that cannot be read, or one that reads as shorter.
CutFiles(full) ==
    {[kind |-> "corrupt", dur |-> 0]}
        \cup {[kind |-> "ok", dur |-> d] : d \in {c \in DurChoices : c < full}}

\* The run is stopped inside engine.runAndWait() (line 87), while the
\* engine writes the file of an item, and the script is started again.
RerunAfterTtsCut ==
    /\ ~prev.rerun
    /\ script = "offline" /\ pc = "generate"
    /\ idx < Len(items)
    /\ LET nid == items[idx + 1].id
       IN  /\ wav[nid].kind = "missing"
           /\ \E full \in DurChoices :
              \E left \in CutFiles(full) :
                 Restart([Earlier([wav EXCEPT ![nid] = left])
                            EXCEPT !.cut_id = nid, !.cut_full = full])

\* The narration lists the two runs are compared on.
RerunItems == 2

RerunInputs ==
    {[k \in 1..n |-> [id |-> k, text |-> "t"]] : n \in 0..RerunItems}

RerunSyncLoad == SyncLoadFrom(RerunInputs)

RerunOfflineLoad == OfflineLoadFrom(RerunInputs)

RerunNext ==
    \/ SyncCheckTools
    \/ RerunSyncLoad
    \/ SyncFind
    \/ SyncFirstPass
    \/ SyncNormalize
    \/ SyncSilence
    \/ SyncMerge
    \/ SyncPickImages
    \/ SyncMakeSegment
    \/ SyncConcatSegments
    \/ SyncBuildSrt
    \/ SyncBurn
    \/ SyncCleanup
    \/ OfflineEnsureFfmpeg
    \/ RerunOfflineLoad
    \/ OfflineListImages
    \/ OfflineTtsInit
    \/ OfflineGenerate
    \/ OfflineGenerateDone
    \/ OfflineProcess
    \/ OfflineConcatVideo
    \/ OfflineConcatAudio
    \/ OfflineCreateSrt
    \/ OfflineMux
    \/ Rerun
    \/ RerunAfterTtsCut

RerunSpec == Init /\ [][RerunNext]_vars

\* ------------------------------------------------------------------- C21

\* Both runs have ended with status 0.
BothEnded == prev.rerun /\ prev.ended /\ Succeeded

ResumedAndEnded == prev.rerun /\ ~prev.ended /\ Succeeded

IsPrefix(a, b) == Len(a) <= Len(b) /\ a = SubSeq(b, 1, Len(a))

\* The segments the stopped run had rendered are rendered again as they
\* were.
SegmentsRepeated == ResumedAndEnded => IsPrefix(prev.segments, segments)

\* C22: a run that resumes a run stopped at any step, reusing the per-item
\* files that run has left, ends with the durations and segments of a run
\* that was never stopped: what the stopped run had rendered is rendered
\* the same, and the item whose audio was being written when the run
\* stopped has the duration of its complete audio.
C22_ResumeEqualsUninterrupted ==
    ResumedAndEnded =>
        /\ IsPrefix(prev.segments, segments)
        /\ \A k \in 1..Len(items) :
              items[k].id = prev.cut_id => durations[k] = prev.cut_full

\* ------------------------------------------------------------------- C23

\* A concatenation or the mux has been started.
JoinStarted == ran \cap {"merge", "concat_video", "mux"} # {}

\* C23 as stated: no concatenation and no mux starts before every item has
\* its chunk, its duration and its rendered segment.
C23_AllItemWorkBeforeJoin ==
    JoinStarted =>
        /\ Len(tmp_files) = Len(items)
        /\ Len(durations) = Len(items)
        /\ Len(segments) = Len(items)

\* C23, amended: each joining step starts after the per-item work it
\* consumes is done for every item: the audio concatenation after every
\* chunk and duration, the video concatenation after every segment, the
\* mux after both concatenations have written their output.
C23_InputsBeforeJoin ==
    /\ "merge" \in ran =>
          /\ Len(tmp_files) = Len(items)
          /\ Len(durations) = Len(items)
    /\ "concat_video" \in ran => Len(segments) = Len(items)
    /\ "mux" \in ran =>
          /\ {"merge", "concat_video"} \subseteq ran
          /\ merged_dur # None
          /\ video_frames # None

\* The sync script has merged the audio of two items and rendered no
\* segment yet.
C23_Witness ==
    /\ script = "sync"
    /\ "merge" \in ran
    /\ merged_dur # None
    /\ Len(items) >= 2
    /\ segments = <<>>


\* ------------------------------------------------------------------- C24

\* The run ended on a failed media command of the per-item work: a chunk
\* (before the audio is merged) or a segment (before the video is joined).
PerItemFailure ==
    /\ fatal = "media_op_failed"
    /\ "concat_video" \notin ran
    /\ "merge" \in ran => "segment" \in ran

\* C24: a per-item media operation that fails is attempted once more before
\* the run is declared fatal: a run that ended on a failed per-item command
\* had run that command at least twice.
C24_RetriedOnce ==
    PerItemFailure => attempts >= 2


\* ------------------------------------------------------------------- C25

\* C25: in every terminal state, success or failure at any step, none of
\* the normalized and placeholder chunks the run created is left on disk.
C25_NoScratchLeft ==
    Terminated => disk \cap TmpPaths(tmp_files) = {}


\* ------------------------------------------- narration lists with repeated ids

\* Neither loader compares the ids of two records, so a narration.json in
\* which an id occurs twice is loaded as it is.
RepeatItems == 2

RepeatInputs ==
    UNION {{[k \in 1..n |-> [id |-> ids[k], text |-> "t"]] :
                ids \in [1..n -> 1..RepeatItems]} : n \in 0..RepeatItems}

RepeatSyncLoad == SyncLoadFrom(RepeatInputs)

RepeatOfflineLoad == OfflineLoadFrom(RepeatInputs)

RepeatNext ==
    \/ SyncCheckTools
    \/ RepeatSyncLoad
    \/ SyncFind
    \/ SyncFirstPass
    \/ SyncNormalize
    \/ SyncSilence
    \/ SyncMerge
    \/ SyncPickImages
    \/ SyncMakeSegment
    \/ SyncConcatSegments
    \/ SyncBuildSrt
    \/ SyncBurn
    \/ SyncCleanup
    \/ OfflineEnsureFfmpeg
    \/ RepeatOfflineLoad
    \/ OfflineListImages
    \/ OfflineTtsInit
    \/ OfflineGenerate
    \/ OfflineGenerateDone
    \/ OfflineProcess
    \/ OfflineConcatVideo
    \/ OfflineConcatAudio
    \/ OfflineCreateSrt
    \/ OfflineMux

RepeatSpec == Init /\ [][RepeatNext]_vars

\* ------------------------------------------------------------------- C26

\* No two entries of a list of files have the same path.
DistinctPaths(files) ==
    \A i, j \in 1..Len(files) : i # j => files[i].path # files[j].path

\* C26: within one run every item's segment file and every item's audio
\* chunk has a path of its own, so neither concat list names one file for
\* two items.
C26_OnePathPerItem ==
    /\ DistinctPaths(segments)
    /\ DistinctPaths(tmp_files)


\* ------------------------------------------------------------------- C27

\* C27: the merged track of merge_narration.py is the chunks in ascending
\* order of their item ids, chunk k being the file of the k-th id, and its
\* length is the sum of the chunks' lengths.
C27_MergedInItemOrder ==
    (script = "merge" /\ "merge" \in ran) =>
        /\ \A i, j \in 1..Len(tmp_files) :
              i < j => tmp_files[i].path[2] < tmp_files[j].path[2]
        /\ merged_dur = Sum([k \in 1..Len(tmp_files) |-> tmp_files[k].dur])


\* ------------------------------------------- tts_offline_pyttsx3_run.py

\* f"{i:03d}": at least three digits.
Pad3(n) == IF n < 10 THEN <<0, 0, n>> ELSE IF n < 100 THEN <<0>> \o DigitsOf(n)
           ELSE DigitsOf(n)

\* Line 27: the file of the i-th record, counted from 1.
outpath(i) == <<"narration", Pad3(i)>>

\* narration.json as the pipeline is given it, with any text per record.
TtsInputs ==
    UNION {{[k \in 1..n |-> [id |-> k, text |-> TextOf(k, shapes[k])]] :
                shapes \in [1..n -> {"empty", "blank", "letter"}]} :
           n \in 0..MaxItems}

TtsInit ==
    /\ script = "tts"
    /\ pc = "tts_load"
    /\ exit_status = None
    /\ fatal = "none"
    /\ attempts = 0
    /\ queued = <<>>
    /\ items = <<>>
    /\ wav = <<>>
    /\ aligned_files = <<>>
    /\ existing_durs = <<>>
    /\ avg = None
    /\ tmp_files = <<>>
    /\ durations = <<>>
    /\ idx = 0
    /\ images = None
    /\ mapped = <<>>
    /\ segments = <<>>
    /\ cues = <<>>
    /\ merged_dur = None
    /\ video_frames = None
    /\ final_dur = None
    /\ audio_dir = FALSE
    /\ disk = {}
    /\ ran = {}
    /\ probe_tool = "unknown"
    /\ fsops = {}
    /\ narration_json = <<>>
    /\ prev = FirstRun

\* Lines 6-8: read narration.json (open raises when there is none), make
\* the audio directory.
TtsLoad ==
    /\ script = "tts" /\ pc = "tts_load"
    /\ \E exists \in BOOLEAN :
         IF exists
         THEN \E d \in TtsInputs :
                 /\ narration_json' = d
                 /\ items' = d
                 /\ audio_dir' = TRUE
                 /\ Continue("engine")
         ELSE /\ Abort("no_narration")
              /\ UNCHANGED <<narration_json, items, audio_dir>>
    /\ fsops' = fsops \cup {"narration.json"}
    /\ UNCHANGED <<script, queued, prev, probe_tool, wav, aligned_files,
                   existing_durs, avg, tmp_files, durations, idx, images,
                   mapped, segments, cues, merged_dur, video_frames,
                   final_dur, disk, ran>>

\* Lines 12-18: pyttsx3.init() and the voice; init raises where no speech
\* driver is installed.
TtsEngine ==
    /\ script = "tts" /\ pc = "engine"
    /\ \E ok \in BOOLEAN :
         IF ok THEN Continue("queue") ELSE Abort("tts_unavailable")
    /\ UNCHANGED <<script, queued, prev, narration_json, probe_tool, fsops,
                   items, wav, aligned_files, existing_durs, avg, tmp_files,
                   durations, idx, images, mapped, segments, cues,
                   merged_dur, video_frames, final_dur, audio_dir, disk, ran>>

\* One turn of the loop of lines 21-39: a record whose text is empty after
\* strip is skipped; otherwise its file is queued at the engine, unless
\* save_to_file raises, which is printed and passed over.
TtsQueue ==
    /\ script = "tts" /\ pc = "queue"
    /\ idx < Len(items)
    /\ LET i == idx + 1
           text == strip(items[i].text)
       IN  IF text = <<>>
           THEN UNCHANGED queued
           ELSE \E ok \in BOOLEAN :
                   queued' = IF ok THEN Append(queued, outpath(i)) ELSE queued
    /\ idx' = idx + 1
    /\ Continue("queue")
    /\ UNCHANGED <<script, prev, narration_json, probe_tool, fsops, items, wav,
                   aligned_files, existing_durs, avg, tmp_files, durations,
                   images, mapped, segments, cues, merged_dur, video_frames,
                   final_dur, audio_dir, disk, ran>>

\* Lines 42-45: engine.runAndWait() writes every queued file.
TtsRunAndWait ==
    /\ script = "tts" /\ pc = "queue"
    /\ idx = Len(items)
    /\ disk' = disk \cup {queued[k] : k \in 1..Len(queued)}
    /\ ran' = ran \cup {"tts"}
    /\ Continue("find")
    /\ UNCHANGED <<script, queued, prev, narration_json, probe_tool, fsops,
                   items, wav, aligned_files, existing_durs, avg, tmp_files,
                   durations, idx, images, mapped, segments, cues,
                   merged_dur, video_frames, final_dur, audio_dir>>

\* find_narration_files of the sync script, on the narration list and the
\* audio directory the tts script has left: the item's id where
\* narration_{id:02d}.wav exists, None where it does not.
TtsFind ==
    /\ script = "tts" /\ pc = "find"
    /\ aligned_files' = [k \in 1..Len(items) |->
                            IF AudioPath(items[k].id) \in disk
                            THEN items[k].id ELSE None]
    /\ Return("none")
    /\ fsops' = fsops \cup {"audio"}
    /\ UNCHANGED <<script, queued, prev, narration_json, probe_tool, items, wav,
                   existing_durs, avg, tmp_files, durations, idx, images,
                   mapped, segments, cues, merged_dur, video_frames,
                   final_dur, audio_dir, disk, ran>>

TtsNext == TtsLoad \/ TtsEngine \/ TtsQueue \/ TtsRunAndWait \/ TtsFind

TtsSpec == TtsInit /\ [][TtsNext]_vars

\* ------------------------------------------------------------------- C28

\* C28: the file the tts script writes for an item is the file the resolver
\* looks for, so an item whose audio was produced is not classified missing.
C28_ProducedIsFound ==
    (script = "tts" /\ pc = "done") =>
        \A k \in 1..Len(items) :
           outpath(k) \in disk =>
               /\ outpath(k) = AudioPath(items[k].id)
               /\ aligned_files[k] # None


\* ------------------------------------------------------------------- C29

\* C29: when no item has an audio file, every placeholder silence of the
\* sync script has the length FALLBACK_SILENCE.
C29_FallbackWhenNonePresent ==
    (script = "sync" /\ \A k \in 1..Len(aligned_files) : aligned_files[k] = None) =>
        \A k \in 1..Len(tmp_files) :
           tmp_files[k].placeholder => tmp_files[k].dur = FALLBACK_SILENCE


\* ------------------------------------------------------------------- C30

\* C30: every duration handed to segment rendering is strictly positive,
\* and the last cue ends no later than the sum of the items' durations.
C30_PositiveAndWithinVideo ==
    /\ \A k \in 1..Len(segments) : segments[k].dur > 0
    /\ cues # <<>> => cues[Len(cues)].et <= Sum(durations)

=============================================================================
